---- MODULE Spec2Model ----
(***************************************************************************)
(* Model of plugins.Configuration.Validate (src/plugins/config.go): the    *)
(* defaulting pass, the regexp/duration compilation pass and the two       *)
(* plugin-validation passes, run on a Configuration drawn from bounded     *)
(* input sets (Spec); validateSizes (SpecSizes); Config.mergeJobConfig     *)
(* (SpecMerge) and Load / loadConfig (SpecLoad) of                         *)
(* src/flagutil/flagutil.go, each in a section of its own further down.    *)
(*                                                                         *)
(* Representation choices                                                  *)
(*  - a scope key ("org", "org/repo") is the sequence of its "/"-separated *)
(*    segments, so strings.Contains(k, "/") is Len(k) > 1 and              *)
(*    strings.Split(k, "/")[0] is k[1];                                    *)
(*  - a Go map is a function whose DOMAIN is the key set; a lookup of a    *)
(*    missing key yields the zero value;                                   *)
(*  - Go's unspecified map iteration order is a nondeterministic choice of *)
(*    an enumeration of the key set;                                       *)
(*  - an error is a record, one field per part of the formatted message;   *)
(*  - a time.Duration is a number of milliseconds.                         *)
(***************************************************************************)
EXTENDS Integers, Sequences, FiniteSets, TLC

VARIABLES c, input, pc, ret, log, ran, uniqueBasenames, todo

vars == <<c, input, pc, ret, log, ran, uniqueBasenames, todo>>

(***************************************************************************)
(* Bounds of the input space.                                              *)
(***************************************************************************)
MaxPlugins == 2

MaxExternal == 1

MaxNamespaces == 2

MaxRML == 2

(***************************************************************************)
(* Generic helpers.                                                        *)
(***************************************************************************)
SeqsUpTo(S, n) == UNION {[1..k -> S] : k \in 0..n}

Range(s) == {s[i] : i \in DOMAIN s}

\* every enumeration of a finite set: the orders a Go map range can take
Orders(S) == {o \in [1..Cardinality(S) -> S] : Range(o) = S}

\* m[k] of a Go map: the zero value when the key is absent
Lookup(m, k, zero) == IF k \in DOMAIN m THEN m[k] ELSE zero

\* all Go maps with keys among K and values in V
Maps(K, V) == UNION {[D -> V] : D \in SUBSET K}

(***************************************************************************)
(* Values.                                                                 *)
(***************************************************************************)
Nil == [kind |-> "nil"]

NilRe == [compiled |-> FALSE, expr |-> ""]

\* a *int: <<>> when nil, <<n>> when it points to n
NilInt == <<>>

Millisecond == 1

Second == 1000 * Millisecond

Minute == 60 * Second

defaultBlunderbussReviewerCount == 2

defaultSigMentionRegexp ==
  "(?m)@kubernetes/sig-([\\w-]*)-(misc|test-failures|bugs|feature-requests|proposals|pr-reviews|api-reviews)"

defaultBranchRegexp == "^release-.*$"

\* the message of config.go:499-503 (its back quotes written as ')
defaultCherryPickComment ==
  "This PR is not for the master branch but does not have the 'cherry-pick-approved'  label. Adding the 'do-not-merge/cherry-pick-not-approved'  label.\n\nTo approve the cherry-pick, please assign the patch release manager for the release branch by writing '/assign @username' in a comment when ready.\n\nThe list of patch release managers for each release can be found [here](https://git.k8s.io/sig-release/release-managers.md)."

\* mutant: another default grace period
defaultGracePeriodMinute == "1m"

defaultGracePeriod == "5s"

defaultMaintainersFriendlyName == "SIG Chairs/TLs"

defaultConfigFile == "prow/config.json"

defaultPluginFile == "prow/plugins.yaml"

\* the registry of self-registered plugins (name -> help provider)
pluginHelp == {"trigger", "lgtm"}

(***************************************************************************)
(* Defaulting.                                                             *)
(***************************************************************************)
\* the entry a composite literal ConfigMapSpec{Name: n} denotes
NewConfigMapSpec(n) ==
  [Name |-> n, Key |-> "", Namespace |-> "", AdditionalNamespaces |-> <<>>,
   Namespaces |-> <<>>]

\* cf, pf of ConfigUpdater.SetDefaults
ResolvedConfigFile(cu) ==
  IF cu.ConfigFile = "" THEN defaultConfigFile ELSE cu.ConfigFile

ResolvedPluginFile(cu) ==
  IF cu.PluginFile = "" THEN defaultPluginFile ELSE cu.PluginFile

\* mutant: the deprecated fields are not read, the default paths are used
DeprecatedMapsDefaultPaths(cu) ==
  [k \in {defaultConfigFile, defaultPluginFile} |->
     IF k = defaultPluginFile THEN NewConfigMapSpec("plugins")
                              ELSE NewConfigMapSpec("config")]

\* map[string]ConfigMapSpec{cf: {Name: "config"}, pf: {Name: "plugins"}}:
\* the elements are stored in order, so the second replaces the first
\* when both keys are the same path
DeprecatedMaps(cu) ==
  [k \in {ResolvedConfigFile(cu), ResolvedPluginFile(cu)} |->
     IF k = ResolvedPluginFile(cu) THEN NewConfigMapSpec("plugins")
                                   ELSE NewConfigMapSpec("config")]

\* the warnings logrus.Warnf writes for the deprecated fields
DeprecationWarnings(cu) ==
  (IF cu.ConfigFile = "" THEN <<>>
   ELSE <<[msg |-> "config_file is deprecated", arg |-> cu.ConfigFile]>>)
  \o
  (IF cu.PluginFile = "" THEN <<>>
   ELSE <<[msg |-> "plugin_file is deprecated", arg |-> cu.PluginFile]>>)

\* mutant: an empty Namespace is left out of the resolved list
ResolveNamespacesSkipEmpty(spec) ==
  [spec EXCEPT !.Namespaces =
     IF spec.Namespace = "" THEN spec.AdditionalNamespaces
     ELSE <<spec.Namespace>> \o spec.AdditionalNamespaces]

\* the loop that writes the derived Namespaces of one entry
ResolveNamespaces(spec) ==
  [spec EXCEPT !.Namespaces = <<spec.Namespace>> \o spec.AdditionalNamespaces]

\* mutant: a non-empty deprecated field adds its entry to a non-empty Maps
ConfigUpdaterMapsOverlay(cu) ==
  IF Cardinality(DOMAIN cu.Maps) = 0 THEN DeprecatedMaps(cu)
  ELSE [k \in DOMAIN cu.Maps
             \cup (IF cu.ConfigFile = "" THEN {} ELSE {cu.ConfigFile})
             \cup (IF cu.PluginFile = "" THEN {} ELSE {cu.PluginFile}) |->
          IF k = cu.PluginFile THEN NewConfigMapSpec("plugins")
          ELSE IF k = cu.ConfigFile THEN NewConfigMapSpec("config")
          ELSE cu.Maps[k]]

ConfigUpdaterMaps(cu) ==
  IF Cardinality(DOMAIN cu.Maps) = 0 THEN DeprecatedMaps(cu) ELSE cu.Maps

ConfigUpdaterSetDefaults(cu) ==
  [cu EXCEPT !.Maps = [k \in DOMAIN ConfigUpdaterMaps(cu) |->
                         ResolveNamespaces(ConfigUpdaterMaps(cu)[k])]]

ConfigUpdaterWarnings(cu) ==
  IF Cardinality(DOMAIN cu.Maps) = 0 THEN DeprecationWarnings(cu) ELSE <<>>

\* mutant: the endpoint is derived from the name even when one is given
DefaultEndpointOverwrite(p) == [p EXCEPT !.Endpoint = "http://" \o p.Name]

DefaultEndpoint(p) ==
  IF p.Endpoint # "" THEN p ELSE [p EXCEPT !.Endpoint = "http://" \o p.Name]

DefaultBlunderbuss(b) ==
  IF b.ReviewerCount = NilInt /\ b.FileWeightCount = NilInt
  THEN [b EXCEPT !.ReviewerCount = <<defaultBlunderbussReviewerCount>>]
  ELSE b

DefaultTrigger(t) ==
  IF t.TrustedOrg = "" \/ t.JoinOrgURL # "" THEN t
  ELSE [t EXCEPT !.JoinOrgURL =
          "https://github.com/orgs/" \o t.TrustedOrg \o "/people"]

DefaultSigMention(s) ==
  IF s.Regexp = "" THEN [s EXCEPT !.Regexp = defaultSigMentionRegexp] ELSE s

\* "for _, milestone := range c.RepoMilestone" assigns to the loop
\* variable, a copy of the map value: the map itself is not written
DefaultRepoMilestone(m) == m

DefaultCherryPickUnapproved(cp) ==
  [cp EXCEPT
     !.BranchRegexp = IF @ = "" THEN defaultBranchRegexp ELSE @,
     !.Comment = IF @ = "" THEN defaultCherryPickComment ELSE @]

DefaultGracePeriod(rml) ==
  IF rml.GracePeriod = "" THEN [rml EXCEPT !.GracePeriod = defaultGracePeriod]
  ELSE rml

setDefaults(cfg) ==
  [cfg EXCEPT
     !.ConfigUpdater = ConfigUpdaterSetDefaults(@),
     !.ExternalPlugins =
        [repo \in DOMAIN @ |-> [i \in DOMAIN @[repo] |-> DefaultEndpoint(@[repo][i])]],
     !.Blunderbuss = DefaultBlunderbuss(@),
     !.Triggers = [i \in DOMAIN @ |-> DefaultTrigger(@[i])],
     !.SigMention = DefaultSigMention(@),
     !.RepoMilestone = DefaultRepoMilestone(@),
     !.CherryPickUnapproved = DefaultCherryPickUnapproved(@),
     !.RequireMatchingLabel = [i \in DOMAIN @ |-> DefaultGracePeriod(@[i])]]

(***************************************************************************)
(* Compilation.                                                            *)
(***************************************************************************)
\* regexp.Compile on the patterns of the input space: the patterns it
\* rejects, with the code and the offending expression of its
\* *syntax.Error ("error parsing regexp: <code>: `<expr>`")
BadPatterns == {"(", "a**", "x)", "["}

SyntaxErrorCode(p) ==
  CASE p = "("   -> "missing closing )"
    [] p = "a**" -> "invalid nested repetition operator"
    [] p = "x)"  -> "unexpected )"
    [] p = "["   -> "missing closing ]"

SyntaxErrorExpr(p) ==
  CASE p = "("   -> "("
    [] p = "a**" -> "**"
    [] p = "x)"  -> "x)"
    [] p = "["   -> "["

regexpCompile(p) ==
  IF p \in BadPatterns
  THEN [re |-> NilRe,
        err |-> [kind |-> "syntax.Error", code |-> SyntaxErrorCode(p),
                 expr |-> SyntaxErrorExpr(p)]]
  ELSE [re |-> [compiled |-> TRUE, expr |-> p], err |-> Nil]

\* time.ParseDuration on the duration strings of the input space
GoodDurations == {"5s", "1m", "0"}

DurationOf(s) ==
  CASE s = "5s" -> 5 * Second
    [] s = "1m" -> Minute
    [] s = "0"  -> 0

ParseDuration(s) ==
  IF s \in GoodDurations
  THEN [d |-> DurationOf(s), err |-> Nil]
  ELSE [d |-> 0,
        err |-> [kind |-> "errors.New",
                 msg |-> IF s = "5" THEN "time: missing unit in duration"
                                    ELSE "time: invalid duration",
                 quoted |-> s]]

\* mutant: the cause is returned as it is, like the first three regexps
CompileErrorBare(what, quoted, cause) == cause

\* fmt.Errorf("failed to compile <what>: %q, error: %v", quoted, cause)
CompileError(what, quoted, cause) ==
  [kind |-> "fmt.Errorf", what |-> what, quoted |-> quoted, cause |-> cause]

\* the loop over pc.RequireMatchingLabel, from entry i on
RECURSIVE compileRequireMatchingLabel(_, _)
compileRequireMatchingLabel(rs, i) ==
  IF i > Len(rs) THEN [rs |-> rs, err |-> Nil]
  ELSE
    LET r == regexpCompile(rs[i].Regexp)
        rs1 == [rs EXCEPT ![i].Re = r.re]
        d == ParseDuration(rs[i].GracePeriod)
        rs2 == [rs1 EXCEPT ![i].GracePeriodDuration = d.d]
    IN IF r.err # Nil
       THEN [rs |-> rs,
             err |-> CompileError("label regexp", rs[i].Regexp, r.err)]
       ELSE IF d.err # Nil
       THEN [rs |-> rs1,
             err |-> CompileError("grace period duration", rs[i].GracePeriod, d.err)]
       ELSE compileRequireMatchingLabel(rs2, i + 1)

\* mutant: Heart.CommentRegexp is compiled before
\* CherryPickUnapproved.BranchRegexp
compileRegexpsAndDurationsHeartFirst(cfg) ==
  LET cRe == regexpCompile(cfg.SigMention.Regexp)
      c1 == [cfg EXCEPT !.SigMention.Re = cRe.re]
      commentRe == regexpCompile(cfg.Heart.CommentRegexp)
      c2 == [c1 EXCEPT !.Heart.CommentRe = commentRe.re]
      branchRe == regexpCompile(cfg.CherryPickUnapproved.BranchRegexp)
      c3 == [c2 EXCEPT !.CherryPickUnapproved.BranchRe = branchRe.re]
      rs == compileRequireMatchingLabel(cfg.RequireMatchingLabel, 1)
  IN IF cRe.err # Nil THEN [cfg |-> cfg, err |-> cRe.err]
     ELSE IF commentRe.err # Nil THEN [cfg |-> c1, err |-> commentRe.err]
     ELSE IF branchRe.err # Nil THEN [cfg |-> c2, err |-> branchRe.err]
     ELSE [cfg |-> [c3 EXCEPT !.RequireMatchingLabel = rs.rs], err |-> rs.err]

compileRegexpsAndDurations(cfg) ==
  LET cRe == regexpCompile(cfg.SigMention.Regexp)
      c1 == [cfg EXCEPT !.SigMention.Re = cRe.re]
      branchRe == regexpCompile(cfg.CherryPickUnapproved.BranchRegexp)
      c2 == [c1 EXCEPT !.CherryPickUnapproved.BranchRe = branchRe.re]
      commentRe == regexpCompile(cfg.Heart.CommentRegexp)
      c3 == [c2 EXCEPT !.Heart.CommentRe = commentRe.re]
      rs == compileRequireMatchingLabel(cfg.RequireMatchingLabel, 1)
  IN IF cRe.err # Nil THEN [cfg |-> cfg, err |-> cRe.err]
     ELSE IF branchRe.err # Nil THEN [cfg |-> c1, err |-> branchRe.err]
     ELSE IF commentRe.err # Nil THEN [cfg |-> c2, err |-> commentRe.err]
     ELSE [cfg |-> [c3 EXCEPT !.RequireMatchingLabel = rs.rs], err |-> rs.err]

(***************************************************************************)
(* Plugin validation.                                                      *)
(***************************************************************************)
\* strings.Contains(repo, "/")
ContainsSlash(repo) == Len(repo) > 1

\* mutant: the last segment of the key is taken for the org
OrgOfLast(repo) == repo[Len(repo)]

\* strings.Split(repo, "/")[0]
OrgOf(repo) == repo[1]

\* the map key the string org denotes
Key(org) == <<org>>

\* mutant: the inner loop looks at the first org plugin only
findDuplicatedPluginConfigFirstOrg(repoConfig, orgConfig) ==
  IF orgConfig = <<>> THEN <<>>
  ELSE SelectSeq(repoConfig, LAMBDA repoPlugin : repoPlugin = Head(orgConfig))

RECURSIVE findDuplicatedPluginConfig(_, _)
findDuplicatedPluginConfig(repoConfig, orgConfig) ==
  IF repoConfig = <<>> THEN <<>>
  ELSE SelectSeq(orgConfig, LAMBDA orgPlugin : Head(repoConfig) = orgPlugin)
       \o findDuplicatedPluginConfig(Tail(repoConfig), orgConfig)

\* "unknown plugin: %s", one line per unregistered name of one scope
UnknownPluginLines(configuration) ==
  [i \in DOMAIN SelectSeq(configuration, LAMBDA plugin : plugin \notin pluginHelp) |->
     [text |-> "unknown plugin",
      plugin |-> SelectSeq(configuration, LAMBDA plugin : plugin \notin pluginHelp)[i]]]

\* mutant: the registry check stops after the first scope
UnknownPluginErrorsFirstScope(plugins, ord) ==
  IF ord = <<>> THEN <<>> ELSE UnknownPluginLines(plugins[Head(ord)])

\* the first loop of validatePlugins, over the scopes in the order ord
RECURSIVE UnknownPluginErrors(_, _)
UnknownPluginErrors(plugins, ord) ==
  IF ord = <<>> THEN <<>>
  ELSE UnknownPluginLines(plugins[Head(ord)])
       \o UnknownPluginErrors(plugins, Tail(ord))

\* "<what> %v are duplicated for %s and %s"
DuplicatedLine(what, dupes, repo, org) ==
  [text |-> what, dupes |-> dupes, repo |-> repo, org |-> org]

\* the second loop of validatePlugins, over the scopes in the order ord
RECURSIVE DuplicatedPluginErrors(_, _)
DuplicatedPluginErrors(plugins, ord) ==
  IF ord = <<>> THEN <<>>
  ELSE LET repo == Head(ord)
           org == OrgOf(repo)
           dupes == findDuplicatedPluginConfig(plugins[repo],
                                               Lookup(plugins, Key(org), <<>>))
       IN (IF ContainsSlash(repo) /\ Len(dupes) > 0
           THEN <<DuplicatedLine("plugins are duplicated", dupes, repo, org)>>
           ELSE <<>>)
          \o DuplicatedPluginErrors(plugins, Tail(ord))

\* fmt.Errorf("<prefix>\n\t%v", strings.Join(errors, "\n\t"))
JoinedError(prefix, errors) ==
  IF Len(errors) > 0
  THEN [kind |-> "fmt.Errorf", prefix |-> prefix, lines |-> errors]
  ELSE Nil

\* mutant: only the first violation found is returned
validatePluginsFirstError(plugins, ord1, ord2) ==
  LET errors == UnknownPluginErrors(plugins, ord1)
                \o DuplicatedPluginErrors(plugins, ord2)
  IN JoinedError(" invalid plugin configuration:",
                 IF errors = <<>> THEN <<>> ELSE <<Head(errors)>>)

validatePlugins(plugins, ord1, ord2) ==
  JoinedError(" invalid plugin configuration:",
              UnknownPluginErrors(plugins, ord1)
              \o DuplicatedPluginErrors(plugins, ord2))

\* mutant: external plugins are compared by Endpoint
NamesByEndpoint(ps) == [i \in DOMAIN ps |-> ps[i].Endpoint]

\* the Name of every external plugin of a list, in order
Names(ps) == [i \in DOMAIN ps |-> ps[i].Name]

RECURSIVE DuplicatedExternalErrors(_, _)
DuplicatedExternalErrors(pluginMap, ord) ==
  IF ord = <<>> THEN <<>>
  ELSE LET repo == Head(ord)
           org == OrgOf(repo)
           orgConfig == Names(Lookup(pluginMap, Key(org), <<>>))
           repoConfig == Names(pluginMap[repo])
           dupes == findDuplicatedPluginConfig(repoConfig, orgConfig)
       IN (IF ContainsSlash(repo) /\ Len(dupes) > 0
           THEN <<DuplicatedLine("external plugins are duplicated", dupes, repo, org)>>
           ELSE <<>>)
          \o DuplicatedExternalErrors(pluginMap, Tail(ord))

validateExternalPlugins(pluginMap, ord) ==
  JoinedError("invalid plugin configuration:",
              DuplicatedExternalErrors(pluginMap, ord))

(***************************************************************************)
(* The input space: the Configurations Validate is called on.  Derived     *)
(* fields (Re, BranchRe, CommentRe, GracePeriodDuration) carry the tag     *)
(* json:"-" and are zero in a freshly parsed Configuration; Namespaces is  *)
(* zero as well unless a caller set it.                                    *)
(***************************************************************************)
Scopes == {<<"org">>, <<"org", "repo">>, <<"org", "repo", "sub">>}

OrgAndRepo == {<<"org">>, <<"org", "repo">>}

PluginNames == {"trigger", "bogus"}

ExternalPluginNames == {"ext", "other"}

NamespaceNames == {"ns2", "ns3"}

MapPaths == {"prow/config.json", "x.yaml"}

ConfigMapSpecs ==
  [Name : {"m"}, Key : {"k"}, Namespace : {"", "ns1"},
   AdditionalNamespaces : SeqsUpTo(NamespaceNames, MaxNamespaces),
   Namespaces : {<<>>, <<"stale">>}]

DeprecatedFiles == {"", "prow/config.json", "prow/plugins.yaml"}

RequireMatchingLabels ==
  [Regexp : {"^kind/", "["}, Re : {NilRe},
   GracePeriod : {"", "1m", "soon"}, GracePeriodDuration : {0}]

\* the Configuration a file with one valid plugin and nothing else gives
Base ==
  [Plugins |-> [k \in {<<"org">>} |-> <<"trigger">>],
   ExternalPlugins |-> <<>>,
   Blunderbuss |-> [ReviewerCount |-> NilInt, FileWeightCount |-> NilInt],
   CherryPickUnapproved |-> [BranchRegexp |-> "", BranchRe |-> NilRe, Comment |-> ""],
   ConfigUpdater |-> [Maps |-> <<>>, ConfigFile |-> "", PluginFile |-> ""],
   Heart |-> [CommentRegexp |-> "", CommentRe |-> NilRe],
   RepoMilestone |-> <<>>,
   RequireMatchingLabel |-> <<>>,
   SigMention |-> [Regexp |-> "", Re |-> NilRe],
   Triggers |-> <<>>]

\* plugin maps of every shape, beside a few external-plugin maps, with
\* and without a failing compilation
PluginInputs ==
  {[Base EXCEPT !.Plugins = p, !.ExternalPlugins = e, !.Heart.CommentRegexp = h] :
     p \in Maps(Scopes, SeqsUpTo(PluginNames, MaxPlugins)),
     e \in Maps(OrgAndRepo, SeqsUpTo([Name : {"ext"}, Endpoint : {""}], MaxExternal)),
     h \in {"", "x)"}}

\* external-plugin maps of every shape, beside a few plugin maps
ExternalInputs ==
  {[Base EXCEPT !.Plugins = p, !.ExternalPlugins = e] :
     p \in Maps(Scopes, {<<>>, <<"trigger">>, <<"bogus">>}),
     e \in Maps(Scopes, SeqsUpTo([Name : ExternalPluginNames, Endpoint : {""}],
                                 MaxExternal))}

\* config-updater settings of every shape
UpdaterInputs ==
  {[Base EXCEPT !.ConfigUpdater = [Maps |-> m, ConfigFile |-> cf, PluginFile |-> pf]] :
     m \in Maps(MapPaths, ConfigMapSpecs),
     cf \in DeprecatedFiles, pf \in DeprecatedFiles}

\* raw regexps and durations of every shape
CompileInputs ==
  {[Base EXCEPT !.SigMention.Regexp = sig,
                !.CherryPickUnapproved.BranchRegexp = br,
                !.CherryPickUnapproved.Comment = cm,
                !.Heart.CommentRegexp = h,
                !.RequireMatchingLabel = rs] :
     sig \in {"", "sig-(.*)", "a**"}, br \in {"", "^v.*$", "("},
     cm \in {"", "hold"}, h \in {"", "x)"},
     rs \in SeqsUpTo(RequireMatchingLabels, MaxRML)}

\* the remaining defaulted settings
OtherInputs ==
  {[Base EXCEPT !.Blunderbuss = b, !.Triggers = t, !.RepoMilestone = rm,
                !.ExternalPlugins = e] :
     b \in [ReviewerCount : {NilInt, <<3>>}, FileWeightCount : {NilInt, <<1>>}],
     t \in {<<>>} \cup {<<x>> : x \in [TrustedOrg : {"", "kubernetes"},
                                       JoinOrgURL : {"", "https://join"}]},
     rm \in Maps({"org/repo"}, [MaintainersFriendlyName : {"", "Leads"}]),
     e \in Maps(OrgAndRepo,
                {<<>>} \cup {<<x>> : x \in [Name : {"ext"}, Endpoint : {"", "http://e"}]})}

Inputs ==
  PluginInputs \cup ExternalInputs \cup UpdaterInputs \cup CompileInputs
  \cup OtherInputs

(***************************************************************************)
(* Configuration.Validate, one action per stage.                           *)
(***************************************************************************)
Pending == [kind |-> "pending"]

Init ==
  /\ input \in Inputs
  /\ c = input
  /\ pc = "setDefaults"
  /\ ret = Pending
  /\ log = <<>>
  /\ ran = <<>>
  /\ uniqueBasenames = {}
  /\ todo = <<>>

\* config.go:632-637: the warning for an empty Plugins map, then defaulting
StepSetDefaults ==
  /\ pc = "setDefaults"
  /\ c' = setDefaults(c)
  /\ log' = log
            \o (IF Cardinality(DOMAIN c.Plugins) = 0
                THEN <<[msg |-> "no plugins specified-- check syntax?", arg |-> ""]>>
                ELSE <<>>)
            \o ConfigUpdaterWarnings(c.ConfigUpdater)
  /\ ran' = Append(ran, "setDefaults")
  /\ pc' = "compileRegexpsAndDurations"
  /\ UNCHANGED <<input, ret, uniqueBasenames, todo>>

\* mutant: the compilation error is dropped and validation goes on
StepCompileIgnoreError ==
  /\ pc = "compileRegexpsAndDurations"
  /\ c' = compileRegexpsAndDurations(c).cfg
  /\ pc' = "validatePlugins"
  /\ ran' = Append(ran, "compileRegexpsAndDurations")
  /\ UNCHANGED <<input, ret, log, uniqueBasenames, todo>>

\* config.go:639-641
StepCompile ==
  /\ pc = "compileRegexpsAndDurations"
  /\ LET r == compileRegexpsAndDurations(c)
     IN /\ c' = r.cfg
        /\ IF r.err # Nil
           THEN ret' = r.err /\ pc' = "done"
           ELSE ret' = ret /\ pc' = "validatePlugins"
  /\ ran' = Append(ran, "compileRegexpsAndDurations")
  /\ UNCHANGED <<input, log, uniqueBasenames, todo>>

\* config.go:642-644
StepValidatePlugins ==
  /\ pc = "validatePlugins"
  /\ \E ord1 \in Orders(DOMAIN c.Plugins), ord2 \in Orders(DOMAIN c.Plugins) :
       LET err == validatePlugins(c.Plugins, ord1, ord2)
       IN IF err # Nil
          THEN ret' = err /\ pc' = "done"
          ELSE ret' = ret /\ pc' = "validateExternalPlugins"
  /\ ran' = Append(ran, "validatePlugins")
  /\ UNCHANGED <<c, input, log, uniqueBasenames, todo>>

\* config.go:645-661
StepValidateExternalPlugins ==
  /\ pc = "validateExternalPlugins"
  /\ \E ord \in Orders(DOMAIN c.ExternalPlugins) :
       ret' = validateExternalPlugins(c.ExternalPlugins, ord)
  /\ pc' = "done"
  /\ ran' = Append(ran, "validateExternalPlugins")
  /\ UNCHANGED <<c, input, log, uniqueBasenames, todo>>

Next ==
  \/ StepSetDefaults
  \/ StepCompile
  \/ StepValidatePlugins
  \/ StepValidateExternalPlugins

Spec == Init /\ [][Next]_vars

TypeOK ==
  /\ pc \in {"setDefaults", "compileRegexpsAndDurations", "validatePlugins",
             "validateExternalPlugins", "done"}
  /\ input \in Inputs

(***************************************************************************)
(* Properties.                                                             *)
(***************************************************************************)
Returned == pc = "done"

\* every raw regexp and duration of cfg, once defaulted, compiles
Compiles(cfg) == compileRegexpsAndDurations(setDefaults(cfg)).err = Nil

\* e is an error joined from the lines of a validation pass
IsJoined(e) == "lines" \in DOMAIN e

\* the names a scope k with a "/" shares with the scope before its first "/"
SharedWithOrg(m, k) ==
  IF k \in DOMAIN m /\ Len(k) > 1 /\ <<k[1]>> \in DOMAIN m
  THEN Range(m[k]) \cap Range(m[<<k[1]>>])
  ELSE {}

\* e has a line of the given text naming the plugin p and both scopes
NamesDuplicate(e, text, p, repo) ==
  /\ IsJoined(e)
  /\ \E i \in DOMAIN e.lines :
       /\ e.lines[i].text = text
       /\ p \in Range(e.lines[i].dupes)
       /\ e.lines[i].repo = repo
       /\ e.lines[i].org = repo[1]

\* C1: when compilation succeeds and a scope org/repo lists a plugin that
\* the scope org lists too, Validate returns an error that names the
\* plugin, the scope org/repo and the scope org.
C1_DuplicatedPluginReported ==
  (Returned /\ Compiles(input)) =>
    \A repo \in DOMAIN input.Plugins :
      \A p \in SharedWithOrg(input.Plugins, repo) :
        ret # Nil /\ NamesDuplicate(ret, "plugins are duplicated", p, repo)

C1_Witness ==
  /\ Returned /\ Compiles(input)
  /\ \E p \in SharedWithOrg(input.Plugins, <<"org", "repo">>) :
       /\ p \in pluginHelp
       /\ NamesDuplicate(ret, "plugins are duplicated", p, <<"org", "repo">>)

\* C2: whenever Validate returns nil, every plugin listed under every
\* scope of Plugins is in the plugin registry.
C2_AcceptedPluginsRegistered ==
  (Returned /\ ret = Nil) =>
    \A scope \in DOMAIN input.Plugins :
      \A p \in Range(input.Plugins[scope]) : p \in pluginHelp

C2_Witness ==
  /\ Returned /\ ret = Nil
  /\ Cardinality({scope \in DOMAIN input.Plugins : input.Plugins[scope] # <<>>}) > 1

\* C3: whenever Validate returns nil, no scope org/repo of ExternalPlugins
\* has an external plugin whose Name is also among those of scope org,
\* whatever Plugins contains.
C3_AcceptedExternalPluginsDistinct ==
  (Returned /\ ret = Nil) =>
    \A repo \in DOMAIN input.ExternalPlugins :
      SharedWithOrg([k \in DOMAIN input.ExternalPlugins |->
                       [i \in DOMAIN input.ExternalPlugins[k] |->
                          input.ExternalPlugins[k][i].Name]], repo) = {}

C3_Witness ==
  /\ Returned /\ ret = Nil
  /\ <<"org">> \in DOMAIN input.ExternalPlugins
  /\ <<"org", "repo">> \in DOMAIN input.ExternalPlugins
  /\ input.ExternalPlugins[<<"org">>] # <<>>
  /\ input.ExternalPlugins[<<"org", "repo">>] # <<>>
  /\ input.Plugins # <<>>

\* the names of the external plugins of every scope
ExternalNames(cfg) ==
  [k \in DOMAIN cfg.ExternalPlugins |->
     [i \in DOMAIN cfg.ExternalPlugins[k] |-> cfg.ExternalPlugins[k][i].Name]]

UnknownPlugins(cfg) ==
  {p \in UNION {Range(cfg.Plugins[k]) : k \in DOMAIN cfg.Plugins} : p \notin pluginHelp}

PluginsViolated(cfg) ==
  \/ UnknownPlugins(cfg) # {}
  \/ \E repo \in DOMAIN cfg.Plugins : SharedWithOrg(cfg.Plugins, repo) # {}

ExternalViolated(cfg) ==
  \E repo \in DOMAIN cfg.ExternalPlugins :
    SharedWithOrg(ExternalNames(cfg), repo) # {}

\* e reports every unknown plugin and every org/repo duplicate of Plugins
ReportsPlugins(e, cfg) ==
  /\ \A p \in UnknownPlugins(cfg) :
       /\ IsJoined(e)
       /\ \E i \in DOMAIN e.lines :
            e.lines[i].text = "unknown plugin" /\ e.lines[i].plugin = p
  /\ \A repo \in DOMAIN cfg.Plugins :
       \A p \in SharedWithOrg(cfg.Plugins, repo) :
         NamesDuplicate(e, "plugins are duplicated", p, repo)

\* e reports every org/repo duplicate of ExternalPlugins
ReportsExternal(e, cfg) ==
  \A repo \in DOMAIN cfg.ExternalPlugins :
    \A p \in SharedWithOrg(ExternalNames(cfg), repo) :
      NamesDuplicate(e, "external plugins are duplicated", p, repo)

\* C4 as stated: when compilation succeeds the returned error reports the
\* violations of Plugins and those of ExternalPlugins together.
C4_Original ==
  (Returned /\ Compiles(input)) =>
    (ReportsPlugins(ret, input) /\ ReportsExternal(ret, input))

\* C4 as amended: when compilation succeeds Validate returns the joined
\* error of the first pass that finds a violation.  If Plugins has one, the
\* error reports every unknown plugin and every duplicate of Plugins and
\* nothing of ExternalPlugins; otherwise, if ExternalPlugins has a
\* duplicate, the error reports every one of them; otherwise it is nil.
C4_FirstFailingPassReported ==
  (Returned /\ Compiles(input)) =>
    /\ PluginsViolated(input) =>
         /\ ret # Nil /\ IsJoined(ret)
         /\ ReportsPlugins(ret, input)
         /\ \A i \in DOMAIN ret.lines :
              ret.lines[i].text # "external plugins are duplicated"
    /\ (~PluginsViolated(input) /\ ExternalViolated(input)) =>
         /\ ret # Nil /\ IsJoined(ret)
         /\ ReportsExternal(ret, input)
    /\ (~PluginsViolated(input) /\ ~ExternalViolated(input)) => ret = Nil

C4_Witness ==
  /\ Returned /\ Compiles(input)
  /\ PluginsViolated(input) /\ ExternalViolated(input)
  /\ IsJoined(ret) /\ Len(ret.lines) > 1
  /\ ReportsPlugins(ret, input)
  /\ ~ReportsExternal(ret, input)

\* C5 as stated: whenever Validate returns nil, every key of Plugins and of
\* ExternalPlugins is "org" or "org/repo".
C5_Original ==
  (Returned /\ ret = Nil) =>
    \A k \in DOMAIN input.Plugins \cup DOMAIN input.ExternalPlugins : Len(k) <= 2

\* C5 as amended: Validate does not look at the form of a key.  A key with
\* more than one "/" can be part of an accepted configuration; it is taken
\* for a repo scope of the org before its first "/", so whenever Validate
\* returns nil such a key shares no name with that org's key.
C5_DeepKeysCheckedAgainstOrg ==
  (Returned /\ ret = Nil) =>
    /\ \A k \in DOMAIN input.Plugins :
         Len(k) > 2 => SharedWithOrg(input.Plugins, k) = {}
    /\ \A k \in DOMAIN input.ExternalPlugins :
         Len(k) > 2 => SharedWithOrg(ExternalNames(input), k) = {}

C5_Witness ==
  /\ Returned /\ ret = Nil
  /\ \E k \in DOMAIN input.Plugins : Len(k) > 2 /\ input.Plugins[k] # <<>>
  /\ \E k \in DOMAIN input.ExternalPlugins :
       /\ Len(k) > 2 /\ input.ExternalPlugins[k] # <<>>
       /\ <<k[1]>> \in DOMAIN input.ExternalPlugins
       /\ input.ExternalPlugins[<<k[1]>>] # <<>>

Stages ==
  <<"setDefaults", "compileRegexpsAndDurations", "validatePlugins",
    "validateExternalPlugins">>

\* C6: the stages run in the order defaulting, compilation, plugin-name
\* validation, external-plugin validation; when a raw string does not
\* compile, Validate returns the compilation error and neither validation
\* pass runs, whatever the plugin maps contain.
C6_CompileErrorBeforeValidation ==
  /\ Len(ran) <= Len(Stages)
  /\ ran = SubSeq(Stages, 1, Len(ran))
  /\ (Returned /\ ~Compiles(input)) =>
       /\ ran = <<"setDefaults", "compileRegexpsAndDurations">>
       /\ ret = compileRegexpsAndDurations(setDefaults(input)).err
       /\ ret # Nil /\ ~IsJoined(ret)

C6_Witness ==
  /\ Returned /\ ~Compiles(input)
  /\ PluginsViolated(input) /\ ExternalViolated(input)
  /\ ran = <<"setDefaults", "compileRegexpsAndDurations">>
  /\ ret.kind = "syntax.Error"

\* one of the three regexps compiled before the loop is rejected
HeadRegexpBad(cfg) ==
  \/ cfg.SigMention.Regexp \in BadPatterns
  \/ cfg.CherryPickUnapproved.BranchRegexp \in BadPatterns
  \/ cfg.Heart.CommentRegexp \in BadPatterns

\* e names a field and quotes a raw string of cfg that does not compile
NamesFieldAndString(e, cfg) ==
  /\ "what" \in DOMAIN e
  /\ \/ /\ e.what = "label regexp"
        /\ e.quoted \in BadPatterns
        /\ \E i \in DOMAIN cfg.RequireMatchingLabel :
             cfg.RequireMatchingLabel[i].Regexp = e.quoted
     \/ /\ e.what = "grace period duration"
        /\ e.quoted \notin GoodDurations
        /\ \E i \in DOMAIN cfg.RequireMatchingLabel :
             cfg.RequireMatchingLabel[i].GracePeriod = e.quoted
     \/ /\ e.what \in {"sigmention regexp", "branch regexp", "comment regexp"}
        /\ e.quoted \in BadPatterns

\* C7 as stated: every compilation failure gives an error naming the exact
\* offending string and the field it came from.
C7_Original ==
  (Returned /\ ~Compiles(input)) => NamesFieldAndString(ret, setDefaults(input))

\* C7 as amended: a failure of RequireMatchingLabel[i].Regexp or
\* RequireMatchingLabel[i].GracePeriod gives an error that quotes the exact
\* string and says which of the two it is; a failure of SigMention.Regexp,
\* CherryPickUnapproved.BranchRegexp or Heart.CommentRegexp gives the bare
\* error of regexp.Compile, which names no field.
C7_OnlyLabelErrorsNameField ==
  (Returned /\ ~Compiles(input)) =>
    IF HeadRegexpBad(setDefaults(input))
    THEN ret.kind = "syntax.Error" /\ "what" \notin DOMAIN ret
    ELSE NamesFieldAndString(ret, setDefaults(input))

C7_Witness ==
  /\ Returned
  /\ "what" \in DOMAIN ret
  /\ ret.what = "grace period duration"
  /\ ret.quoted = "soon"
  /\ Len(input.RequireMatchingLabel) > 1

\* C8: after Validate returns nil, every RequireMatchingLabel entry whose
\* GracePeriod was empty has GracePeriod "5s" and a GracePeriodDuration of
\* 5 seconds, and every other entry keeps its GracePeriod and has the
\* GracePeriodDuration its own string parses to.
C8_GracePeriodDefaultedAndParsed ==
  (Returned /\ ret = Nil) =>
    /\ Len(c.RequireMatchingLabel) = Len(input.RequireMatchingLabel)
    /\ \A i \in DOMAIN input.RequireMatchingLabel :
         IF input.RequireMatchingLabel[i].GracePeriod = ""
         THEN /\ c.RequireMatchingLabel[i].GracePeriod = "5s"
              /\ c.RequireMatchingLabel[i].GracePeriodDuration = 5 * Second
         ELSE /\ c.RequireMatchingLabel[i].GracePeriod
                   = input.RequireMatchingLabel[i].GracePeriod
              /\ c.RequireMatchingLabel[i].GracePeriodDuration
                   = DurationOf(input.RequireMatchingLabel[i].GracePeriod)

C8_Witness ==
  /\ Returned /\ ret = Nil
  /\ Len(input.RequireMatchingLabel) = 2
  /\ input.RequireMatchingLabel[1].GracePeriod = "1m"
  /\ input.RequireMatchingLabel[2].GracePeriod = ""
  /\ c.RequireMatchingLabel[1].GracePeriodDuration = Minute
  /\ c.RequireMatchingLabel[2].GracePeriodDuration = 5 * Second

Defaulted == pc # "setDefaults"

MapsEmpty(cfg) == DOMAIN cfg.ConfigUpdater.Maps = {}

\* the paths the claim calls cf and pf
ClaimedConfigPath(cfg) ==
  IF cfg.ConfigUpdater.ConfigFile = "" THEN "prow/config.json"
  ELSE cfg.ConfigUpdater.ConfigFile

ClaimedPluginPath(cfg) ==
  IF cfg.ConfigUpdater.PluginFile = "" THEN "prow/plugins.yaml"
  ELSE cfg.ConfigUpdater.PluginFile

C10_MapsWinOverDeprecatedFields ==
  (Defaulted /\ ~MapsEmpty(input)) =>
    /\ DOMAIN c.ConfigUpdater.Maps = DOMAIN input.ConfigUpdater.Maps
    /\ \A k \in DOMAIN input.ConfigUpdater.Maps :
         /\ c.ConfigUpdater.Maps[k].Name = input.ConfigUpdater.Maps[k].Name
         /\ c.ConfigUpdater.Maps[k].Key = input.ConfigUpdater.Maps[k].Key
         /\ c.ConfigUpdater.Maps[k].Namespace = input.ConfigUpdater.Maps[k].Namespace
         /\ c.ConfigUpdater.Maps[k].AdditionalNamespaces
              = input.ConfigUpdater.Maps[k].AdditionalNamespaces
    /\ c.ConfigUpdater.ConfigFile = input.ConfigUpdater.ConfigFile
    /\ c.ConfigUpdater.PluginFile = input.ConfigUpdater.PluginFile
    /\ \A i \in DOMAIN log :
         log[i].msg \notin {"config_file is deprecated", "plugin_file is deprecated"}

C10_Witness ==
  /\ Defaulted
  /\ DOMAIN input.ConfigUpdater.Maps = {"x.yaml"}
  /\ input.ConfigUpdater.ConfigFile = "prow/config.json"
  /\ input.ConfigUpdater.PluginFile = "prow/plugins.yaml"
  /\ DOMAIN c.ConfigUpdater.Maps = {"x.yaml"}
  /\ c.ConfigUpdater.Maps["x.yaml"].Namespaces # input.ConfigUpdater.Maps["x.yaml"].Namespaces

\* C11: after defaulting, for every input, ConfigUpdater.Maps is not empty
\* and every entry has Namespaces = [Namespace] ++ AdditionalNamespaces,
\* Namespace first even when it is empty, whatever Namespaces held before.
C11_NamespacesResolved ==
  Defaulted =>
    /\ DOMAIN c.ConfigUpdater.Maps # {}
    /\ \A k \in DOMAIN c.ConfigUpdater.Maps :
         c.ConfigUpdater.Maps[k].Namespaces
           = <<c.ConfigUpdater.Maps[k].Namespace>>
             \o c.ConfigUpdater.Maps[k].AdditionalNamespaces

C11_Witness ==
  /\ Defaulted
  /\ "x.yaml" \in DOMAIN input.ConfigUpdater.Maps
  /\ input.ConfigUpdater.Maps["x.yaml"].Namespace = ""
  /\ input.ConfigUpdater.Maps["x.yaml"].AdditionalNamespaces = <<"ns2", "ns3">>
  /\ input.ConfigUpdater.Maps["x.yaml"].Namespaces = <<"stale">>
  /\ c.ConfigUpdater.Maps["x.yaml"].Namespaces = <<"", "ns2", "ns3">>

\* C12: after defaulting, every RepoMilestone entry whose
\* MaintainersFriendlyName was empty has MaintainersFriendlyName
\* "SIG Chairs/TLs" in the RepoMilestone map of the Configuration.
C12_MilestoneNameDefaulted ==
  Defaulted =>
    \A k \in DOMAIN input.RepoMilestone :
      input.RepoMilestone[k].MaintainersFriendlyName = ""
        => c.RepoMilestone[k].MaintainersFriendlyName = "SIG Chairs/TLs"

\* the raw strings of cfg in the order the claim gives: SigMention.Regexp,
\* CherryPickUnapproved.BranchRegexp, Heart.CommentRegexp, then the Regexp
\* and the GracePeriod of every RequireMatchingLabel entry in list order
RawStrings(cfg) ==
  [k \in 1..(3 + 2 * Len(cfg.RequireMatchingLabel)) |->
     IF k = 1 THEN [field |-> "SigMention.Regexp", i |-> 0,
                    raw |-> cfg.SigMention.Regexp]
     ELSE IF k = 2 THEN [field |-> "CherryPickUnapproved.BranchRegexp", i |-> 0,
                         raw |-> cfg.CherryPickUnapproved.BranchRegexp]
     ELSE IF k = 3 THEN [field |-> "Heart.CommentRegexp", i |-> 0,
                         raw |-> cfg.Heart.CommentRegexp]
     ELSE IF k % 2 = 0
     THEN [field |-> "Regexp", i |-> (k - 2) \div 2,
           raw |-> cfg.RequireMatchingLabel[(k - 2) \div 2].Regexp]
     ELSE [field |-> "GracePeriod", i |-> (k - 3) \div 2,
           raw |-> cfg.RequireMatchingLabel[(k - 3) \div 2].GracePeriod]]

RawIsValid(s) ==
  IF s.field = "GracePeriod" THEN s.raw \in GoodDurations
  ELSE s.raw \notin BadPatterns

\* the position of the earliest raw string that does not compile
FirstInvalid(cfg) ==
  CHOOSE k \in DOMAIN RawStrings(cfg) :
    /\ ~RawIsValid(RawStrings(cfg)[k])
    /\ \A j \in 1..(k - 1) : RawIsValid(RawStrings(cfg)[j])

\* e is the error the raw string s gives
IsErrorOf(e, s) ==
  IF s.field = "Regexp"
  THEN "what" \in DOMAIN e /\ e.what = "label regexp" /\ e.quoted = s.raw
  ELSE IF s.field = "GracePeriod"
  THEN "what" \in DOMAIN e /\ e.what = "grace period duration" /\ e.quoted = s.raw
  ELSE e.kind = "syntax.Error" /\ e.expr = SyntaxErrorExpr(s.raw)

\* the compiled field of the raw string s is set in cfg
CompiledFieldSet(cfg, s) ==
  IF s.field = "SigMention.Regexp" THEN cfg.SigMention.Re # NilRe
  ELSE IF s.field = "CherryPickUnapproved.BranchRegexp"
  THEN cfg.CherryPickUnapproved.BranchRe # NilRe
  ELSE IF s.field = "Heart.CommentRegexp" THEN cfg.Heart.CommentRe # NilRe
  ELSE IF s.field = "Regexp" THEN cfg.RequireMatchingLabel[s.i].Re # NilRe
  ELSE cfg.RequireMatchingLabel[s.i].GracePeriodDuration # 0

\* C20: compilation goes through the raw strings in the stated order and
\* stops at the first failure: the error returned is the one of the
\* earliest invalid string, the compiled field of every earlier string is
\* set and no compiled field of that string or a later one is set.
C20_EarliestInvalidStringReported ==
  (Returned /\ ~Compiles(input)) =>
    LET raws == RawStrings(setDefaults(input))
        first == FirstInvalid(setDefaults(input))
    IN /\ IsErrorOf(ret, raws[first])
       /\ \A j \in DOMAIN raws :
            CompiledFieldSet(c, raws[j]) <=> j < first

C20_Witness ==
  /\ Returned
  /\ input.SigMention.Regexp = "sig-(.*)"
  /\ input.CherryPickUnapproved.BranchRegexp = "("
  /\ input.Heart.CommentRegexp = "x)"
  /\ Len(input.RequireMatchingLabel) = 2
  /\ input.RequireMatchingLabel[1].Regexp = "["
  /\ ret.kind = "syntax.Error" /\ ret.expr = "("
  /\ c.SigMention.Re # NilRe
  /\ c.Heart.CommentRe = NilRe

C20_WitnessInLoop ==
  /\ Returned /\ Compiles(input) = FALSE
  /\ Len(input.RequireMatchingLabel) = 2
  /\ input.RequireMatchingLabel[1].GracePeriod = "soon"
  /\ input.RequireMatchingLabel[2].Regexp = "["
  /\ c.RequireMatchingLabel[1].Re # NilRe
  /\ c.RequireMatchingLabel[2].Re = NilRe

(***************************************************************************)
(* validateSizes (src/plugins/config.go), applied to a *Size drawn from a  *)
(* bounded set.  A nil *Size is NilSize.                                   *)
(***************************************************************************)
MaxSize == 2

NilSize == [kind |-> "nil"]

Sizes == [S : 0..MaxSize, M : 0..MaxSize, L : 0..MaxSize,
          Xl : 0..MaxSize, Xxl : 0..MaxSize]

SizeInputs == {NilSize} \cup Sizes

InvalidSizeError ==
  [kind |-> "errors.New",
   msg |-> "invalid size plugin configuration - one of the smaller sizes is bigger than a larger one"]

\* mutant: equal neighbouring thresholds are rejected
validateSizesStrict(size) ==
  IF size = NilSize THEN Nil
  ELSE IF size.S >= size.M \/ size.M >= size.L \/ size.L >= size.Xl
          \/ size.Xl >= size.Xxl
  THEN InvalidSizeError
  ELSE Nil

\* config.go:589-599
validateSizes(size) ==
  IF size = NilSize THEN Nil
  ELSE IF size.S > size.M \/ size.M > size.L \/ size.L > size.Xl
          \/ size.Xl > size.Xxl
  THEN InvalidSizeError
  ELSE Nil

InitSizes ==
  /\ input \in SizeInputs
  /\ c = input
  /\ pc = "validateSizes"
  /\ ret = Pending
  /\ log = <<>>
  /\ ran = <<>>
  /\ uniqueBasenames = {}
  /\ todo = <<>>

StepValidateSizes ==
  /\ pc = "validateSizes"
  /\ ret' = validateSizes(input)
  /\ pc' = "done"
  /\ ran' = Append(ran, "validateSizes")
  /\ UNCHANGED <<c, input, log, uniqueBasenames, todo>>

NextSizes == StepValidateSizes

SpecSizes == InitSizes /\ [][NextSizes]_vars

\* the thresholds of a Size from the smallest class to the largest
Thresholds(size) == <<size.S, size.M, size.L, size.Xl, size.Xxl>>

NonDecreasing(t) == \A i, j \in DOMAIN t : i < j => t[i] <= t[j]

\* C17: validateSizes accepts a nil Size, accepts a Size exactly when
\* S <= M <= L <= XL <= XXL (equal neighbours allowed), and otherwise
\* returns the one invalid-size error.
C17_SizesAcceptedIffOrdered ==
  Returned =>
    IF input = NilSize THEN ret = Nil
    ELSE IF NonDecreasing(Thresholds(input)) THEN ret = Nil
    ELSE ret = InvalidSizeError

C17_Witness ==
  /\ Returned
  /\ input # NilSize
  /\ input.S = input.M /\ input.M < input.L /\ input.L = input.Xl
  /\ input.Xl = input.Xxl
  /\ ret = Nil

C17_WitnessRejected ==
  /\ Returned
  /\ input # NilSize
  /\ input.S <= input.M /\ input.M <= input.L /\ input.L <= input.Xl
  /\ input.Xl > input.Xxl
  /\ ret = InvalidSizeError

(***************************************************************************)
(* Config.mergeJobConfig (src/flagutil/flagutil.go), applied to a starting *)
(* Config and a list of JobConfig fragments merged one after the other, as *)
(* loadConfig does, stopping at the first error.  Of a Config and of a     *)
(* JobConfig only Presets is kept, and of a Preset only Labels: nothing    *)
(* else is read or written by the merge.                                   *)
(***************************************************************************)
MaxPresets == 1

MaxFragments == 2

LabelNames == {"a", "a:b"}

LabelValues == {"c", "b:c"}

\* flagutil.go:331-335
Presets == [Labels : Maps(LabelNames, LabelValues)]

\* flagutil.go:39-42, the Presets of a JobConfig
JobConfigs == [Presets : SeqsUpTo(Presets, MaxPresets)]

\* label + ":" + val
Pair(label, val) == label \o ":" \o val

DuplicatedPairError(pair) ==
  [kind |-> "fmt.Errorf", msg |-> "duplicated preset 'label:value' pair : %s",
   pair |-> pair]

\* the orders in which the two nested range loops of mergeJobConfig can go
\* through the labels: the presets in list order, the labels of each preset
\* in any order
RECURSIVE ScanOrders(_)
ScanOrders(presets) ==
  IF presets = <<>> THEN {<<>>}
  ELSE {<<h>> \o t : h \in Orders(DOMAIN Head(presets).Labels),
                      t \in ScanOrders(Tail(presets))}

\* the "label:value" strings in the order the loops build them
RECURSIVE Renderings(_, _)
Renderings(presets, scan) ==
  IF presets = <<>> THEN <<>>
  ELSE [i \in DOMAIN Head(scan) |->
          Pair(Head(scan)[i], Head(presets).Labels[Head(scan)[i]])]
       \o Renderings(Tail(presets), Tail(scan))

\* the first string of pairs already in validLabels when it is reached
FirstRepeated(pairs) ==
  LET repeated == {i \in DOMAIN pairs : \E j \in 1..(i - 1) : pairs[j] = pairs[i]}
  IN IF repeated = {} THEN Nil
     ELSE DuplicatedPairError(
            pairs[CHOOSE i \in repeated : \A j \in repeated : i <= j])

\* mutant: only the last two presets of the list are scanned
mergeJobConfigLastTwo(nc, jc, scan) ==
  LET presets == nc.Presets \o jc.Presets
      from == IF Len(presets) > 2 THEN Len(presets) - 1 ELSE 1
  IN [cfg |-> [nc EXCEPT !.Presets = presets],
      err |-> FirstRepeated(Renderings(SubSeq(presets, from, Len(presets)),
                                       SubSeq(scan, from, Len(presets))))]

\* flagutil.go:286-323; scan is an element of ScanOrders of the appended list
mergeJobConfig(nc, jc, scan) ==
  LET presets == nc.Presets \o jc.Presets
  IN [cfg |-> [nc EXCEPT !.Presets = presets],
      err |-> FirstRepeated(Renderings(presets, scan))]

\* every result of merging the fragments frags into acc one after the
\* other, stopping at the first error
RECURSIVE MergeAll(_, _)
MergeAll(acc, frags) ==
  IF frags = <<>> THEN {[cfg |-> acc, err |-> Nil]}
  ELSE UNION {IF r.err # Nil THEN {r} ELSE MergeAll(r.cfg, Tail(frags)) :
                r \in {mergeJobConfig(acc, Head(frags), scan) :
                         scan \in ScanOrders(acc.Presets \o Head(frags).Presets)}}

MergeInputs ==
  [acc : [Presets : SeqsUpTo(Presets, 1)],
   fragments : SeqsUpTo(JobConfigs, MaxFragments) \ {<<>>}]

InitMerge ==
  /\ input \in MergeInputs
  /\ c = input.acc
  /\ pc = "mergeJobConfig"
  /\ ret = Pending
  /\ log = <<>>
  /\ ran = <<>>
  /\ uniqueBasenames = {}
  /\ todo = <<>>

\* one call c.mergeJobConfig(jc) on the next fragment
StepMergeJobConfig ==
  /\ pc = "mergeJobConfig"
  /\ LET jc == input.fragments[Len(ran) + 1]
     IN \E scan \in ScanOrders(c.Presets \o jc.Presets) :
          LET r == mergeJobConfig(c, jc, scan)
          IN /\ c' = r.cfg
             /\ ret' = r.err
             /\ pc' = IF r.err # Nil \/ Len(ran) + 1 = Len(input.fragments)
                      THEN "done" ELSE "mergeJobConfig"
  /\ ran' = Append(ran, "mergeJobConfig")
  /\ UNCHANGED <<input, log, uniqueBasenames, todo>>

NextMerge == StepMergeJobConfig

SpecMerge == InitMerge /\ [][NextMerge]_vars

\* the (label, value) pairs of a preset
PairsOf(preset) == {<<l, preset.Labels[l]>> : l \in DOMAIN preset.Labels}

\* the (label, value) pairs that occur in two presets of the list
SharedPairs(presets) ==
  {p \in UNION {PairsOf(presets[i]) : i \in DOMAIN presets} :
     \E i, j \in DOMAIN presets :
       i # j /\ p \in PairsOf(presets[i]) /\ p \in PairsOf(presets[j])}

Merged == Len(ran) > 0

\* C18: after a merge, an error is returned exactly when some (label, value)
\* pair occurs in two presets of the accumulated list, two different pairs
\* with the same "label:value" string do not count as a duplicate, and the
\* error carries the string of a duplicated pair.
C18_ErrorIffPairShared ==
  Merged =>
    /\ ret # Nil <=> SharedPairs(c.Presets) # {}
    /\ ret # Nil => \E p \in SharedPairs(c.Presets) : ret.pair = Pair(p[1], p[2])

\* the accepted outcome of a merge result: failure, or the presets held,
\* as a multiset
Outcome(r) ==
  IF r.err # Nil THEN [failed |-> TRUE, presets |-> <<>>]
  ELSE [failed |-> FALSE,
        presets |-> [p \in Range(r.cfg.Presets) |->
                       Cardinality({i \in DOMAIN r.cfg.Presets :
                                      r.cfg.Presets[i] = p})]]

\* the fragments of the input taken in the order o of their positions
Reordered(o) == [i \in DOMAIN o |-> input.fragments[o[i]]]

\* C19: whatever the order in which the fragments are merged into the same
\* starting accumulator, the merge fails in every order or succeeds in every
\* order with the same multiset of presets.
C19_MergeOrderIndependent ==
  Returned =>
    \A o \in Orders(DOMAIN input.fragments) :
      \A r \in MergeAll(input.acc, Reordered(o)) :
        Outcome(r) = Outcome([cfg |-> c, err |-> ret])

C19_Witness ==
  /\ Returned
  /\ Len(input.fragments) = 2
  /\ input.fragments[1] # input.fragments[2]
  /\ input.acc.Presets # <<>>
  /\ input.fragments[1].Presets # <<>>
  /\ input.fragments[2].Presets # <<>>
  /\ input.fragments[2].Presets[1] = input.acc.Presets[1]
  /\ DOMAIN input.acc.Presets[1].Labels # {}
  /\ Len(ran) = 1
  /\ ret # Nil

C19_WitnessAccepted ==
  /\ Returned
  /\ Len(input.fragments) = 2
  /\ input.fragments[1] # input.fragments[2]
  /\ Len(c.Presets) = 3
  /\ \A i \in 1..3 : DOMAIN c.Presets[i].Labels # {}
  /\ ret = Nil

(***************************************************************************)
(* Load and loadConfig (src/flagutil/flagutil.go) on a file system drawn   *)
(* from bounded sets.                                                      *)
(*  - a path is the sequence of its elements; a file name is a string and  *)
(*    the functions of it the code uses (the ".." prefix test, the         *)
(*    extension) are tables over the names of the input space;             *)
(*  - a file is its outcome under ioutil.ReadFile and yaml.Unmarshal and   *)
(*    the presets it holds; a fault inside the parser is a panic;          *)
(*  - a directory maps the names of its entries to nodes, and              *)
(*    filepath.Walk visits them in lexical order, depth first;             *)
(*  - c is the Config nc being built, ret the (Config, error) returned,    *)
(*    ran the calls made, todo the part of the tree the walk has not       *)
(*    reached yet.                                                         *)
(***************************************************************************)
MaxMainPresets == 2

NilConfig == [kind |-> "nil"]

SkipDir == [kind |-> "filepath.SkipDir"]

PanicValue == [kind |-> "panic"]

\* the names of the input space in the order filepath.Walk lists them
SortedNames == <<"..data", "a", "b", "n.txt", "x.yaml", "y.yml">>

\* the names a job-config root is given
RootNames == {"jobs", "..jobs", "jobs.yaml"}

\* strings.HasPrefix(name, "..")
HasDotDotPrefix(name) == name \in {"..data", "..jobs"}

\* filepath.Ext(path): the suffix of the last element from its final dot
Ext(path) ==
  LET name == path[Len(path)]
  IN CASE name \in {"x.yaml", "jobs.yaml", "job.yaml", "config.yaml"} -> ".yaml"
       [] name = "y.yml" -> ".yml"
       [] name = "n.txt" -> ".txt"
       [] name = "..data" -> ".data"
       [] name = "..jobs" -> ".jobs"
       [] OTHER -> ""

\* the path as the string the messages print
RECURSIVE PathString(_)
PathString(path) ==
  IF Len(path) = 1 THEN path[1]
  ELSE path[1] \o "/" \o PathString(Tail(path))

\* mutant: the whole path is taken for the basename
BasenameWholePath(path) == PathString(path)

\* filepath.Base(path)
Basename(path) == path[Len(path)]

\* the presets the files of the input space hold
PresetTeam == [Labels |-> ("a" :> "c")]

PresetOther == [Labels |-> ("a" :> "b:c")]

PresetThird == [Labels |-> ("a:b" :> "c")]

\* what reading and parsing a file gives
Content(status, presets) == [status |-> status, presets |-> presets]

NoContent == Content("none", <<>>)

BadContents ==
  {Content("unreadable", <<>>), Content("badyaml", <<>>), Content("panic", <<>>)}

File(content) ==
  [kind |-> "file", readdirErr |-> FALSE, content |-> content, listing |-> <<>>]

Dir(listing, readdirErr) ==
  [kind |-> "dir", readdirErr |-> readdirErr, content |-> NoContent,
   listing |-> listing]

\* an entry os.Lstat fails on
LstatErr ==
  [kind |-> "lstatErr", readdirErr |-> FALSE, content |-> NoContent,
   listing |-> <<>>]

\* the map with the entries of the pairs <<name, node>> given
Listing(pairs) ==
  [n \in {p[1] : p \in pairs} |-> (CHOOSE p \in pairs : p[1] = n)[2]]

\* the entries of a tree in the order filepath.Walk reaches them: a
\* directory, then its entries in lexical order, each with what is below it
RECURSIVE FlattenNode(_, _)
RECURSIVE FlattenListing(_, _, _)
FlattenNode(path, node) ==
  <<[path |-> path, kind |-> node.kind, readdirErr |-> node.readdirErr,
     content |-> node.content]>>
  \o (IF node.kind = "dir" THEN FlattenListing(path, node.listing, 1) ELSE <<>>)

FlattenListing(path, listing, k) ==
  IF k > Len(SortedNames) THEN <<>>
  ELSE (IF SortedNames[k] \in DOMAIN listing
        THEN FlattenNode(Append(path, SortedNames[k]), listing[SortedNames[k]])
        ELSE <<>>)
       \o FlattenListing(path, listing, k + 1)

\* the entries of rest that are not below the entry e
RECURSIVE SkipChildren(_, _)
SkipChildren(e, rest) ==
  IF rest # <<>> /\ Len(Head(rest).path) > Len(e.path)
  THEN SkipChildren(e, Tail(rest))
  ELSE rest

StatError(path) == [kind |-> "os.PathError", op |-> "stat", path |-> path]

DirError(path) ==
  [kind |-> "fmt.Errorf", msg |-> "prowConfig cannot be a dir - %s", path |-> path]

ReadError(path) ==
  [kind |-> "fmt.Errorf", msg |-> "error reading %s: %v", path |-> path]

UnmarshalError(path) ==
  [kind |-> "fmt.Errorf", msg |-> "error unmarshaling %s: %v", path |-> path]

DuplicatedBasenameError(base) ==
  [kind |-> "fmt.Errorf", msg |-> "duplicated basename is not allowed: %s",
   base |-> base]

PanicError(r) ==
  [kind |-> "fmt.Errorf", msg |-> "panic loading config: %v", value |-> r]

\* mutant: a file that cannot be read is taken for an empty one
yamlToConfigIgnoreRead(path, content) ==
  IF content.status = "ok"
  THEN [cfg |-> [Presets |-> content.presets], err |-> Nil, panic |-> FALSE]
  ELSE IF content.status = "badyaml"
  THEN [cfg |-> [Presets |-> <<>>], err |-> UnmarshalError(PathString(path)),
        panic |-> FALSE]
  ELSE IF content.status = "panic"
  THEN [cfg |-> [Presets |-> <<>>], err |-> Nil, panic |-> TRUE]
  ELSE [cfg |-> [Presets |-> <<>>], err |-> Nil, panic |-> FALSE]

\* flagutil.go:223-278: what is unmarshalled, the error returned, or a panic
yamlToConfig(path, content) ==
  IF content.status = "ok"
  THEN [cfg |-> [Presets |-> content.presets], err |-> Nil, panic |-> FALSE]
  ELSE IF content.status = "badyaml"
  THEN [cfg |-> [Presets |-> <<>>], err |-> UnmarshalError(PathString(path)),
        panic |-> FALSE]
  ELSE IF content.status = "panic"
  THEN [cfg |-> [Presets |-> <<>>], err |-> Nil, panic |-> TRUE]
  ELSE [cfg |-> [Presets |-> <<>>], err |-> ReadError(PathString(path)),
        panic |-> FALSE]

Call(op, path) == [op |-> op, path |-> path]

\* mutant: a ".." directory is passed over like a ".." file, and the walk
\* goes on into it
HiddenEntryNoSkip(e) == Nil

\* flagutil.go:185-192: what the function returns for an entry whose name
\* starts with ".."
HiddenEntry(e) == IF e.kind = "dir" THEN SkipDir ELSE Nil

\* flagutil.go:178-213, the function filepath.Walk calls on the entry e with
\* the Config nc and the set ub of basenames seen: the Config and the set
\* after the call, the error returned or the panic raised, the lines logged
\* and the calls made
walkFn(nc, ub, e, scan) ==
  LET visit == <<Call("walkFn", e.path)>>
      out(cfg, names, err, panic, lines, calls) ==
        [nc |-> cfg, ub |-> names, err |-> err, panic |-> panic,
         log |-> lines, calls |-> visit \o calls]
  IN IF e.kind = "lstatErr" \/ e.readdirErr
     THEN out(nc, ub, Nil, FALSE,
              <<[msg |-> "walking path %q.", arg |-> PathString(e.path)]>>, <<>>)
     ELSE IF HasDotDotPrefix(e.path[Len(e.path)])
     THEN out(nc, ub, HiddenEntry(e), FALSE, <<>>, <<>>)
     ELSE IF Ext(e.path) # ".yaml" /\ Ext(e.path) # ".yml"
     THEN out(nc, ub, Nil, FALSE, <<>>, <<>>)
     ELSE IF e.kind = "dir"
     THEN out(nc, ub, Nil, FALSE, <<>>, <<>>)
     ELSE IF Basename(e.path) \in ub
     THEN out(nc, ub, DuplicatedBasenameError(Basename(e.path)), FALSE, <<>>, <<>>)
     ELSE LET y == yamlToConfig(e.path, e.content)
              m == mergeJobConfig(nc, y.cfg, scan)
              names == ub \cup {Basename(e.path)}
              parse == <<Call("yamlToConfig", e.path)>>
          IN IF y.panic THEN out(nc, names, Nil, TRUE, <<>>, parse)
             ELSE IF y.err # Nil THEN out(nc, names, y.err, FALSE, <<>>, parse)
             ELSE out(m.cfg, names, m.err, FALSE, <<>>,
                      parse \o <<Call("mergeJobConfig", e.path)>>)

\* what loadConfig hands to Load: its two results, or a panic
Outcome3(cfg, err, panic) == [c |-> cfg, err |-> err, panic |-> panic]

\* mutant: the deferred function does not reset the results after a panic
LoadResultNoReset(r) ==
  IF r.panic THEN [c |-> r.c, err |-> r.err]
  ELSE IF r.err # Nil THEN [c |-> NilConfig, err |-> r.err]
  ELSE [c |-> r.c, err |-> Nil]

\* flagutil.go:106-127: the results of Load from the outcome of loadConfig
LoadResult(r) ==
  IF r.panic THEN [c |-> NilConfig, err |-> PanicError(PanicValue)]
  ELSE IF r.err # Nil THEN [c |-> NilConfig, err |-> r.err]
  ELSE [c |-> r.c, err |-> Nil]

\* the main config file: missing, a directory, or a file
MainPresets == SeqsUpTo({PresetTeam, PresetOther}, MaxMainPresets)

ProwConfigs ==
  {[kind |-> "missing"], Dir(<<>>, FALSE)}
    \cup {File(k) : k \in BadContents}
    \cup {File(Content("ok", ps)) : ps \in MainPresets}

\* the files of a job-config tree
JobFiles ==
  {File(Content("ok", ps)) :
     ps \in {<<>>, <<PresetTeam>>, <<PresetOther>>, <<PresetThird>>}}
    \cup {File(k) : k \in BadContents}

PlainFiles == {File(Content("ok", <<>>)), File(Content("ok", <<PresetTeam>>))}

\* the listings of the sub-directories "a" and "b" of a job-config tree
SubListings ==
  {l \in Maps({"x.yaml", "y.yml"}, PlainFiles \cup {LstatErr}) :
     "y.yml" \in DOMAIN l => l["y.yml"] = File(Content("ok", <<>>))}

SubDirs ==
  {Dir(l, FALSE) : l \in SubListings}
    \cup {Dir(Listing({<<"x.yaml", File(Content("ok", <<PresetTeam>>))>>}), TRUE),
          LstatErr}

\* what a name of the root directory can stand for
NodesOf(name) ==
  CASE name = "..data" ->
         {File(Content("ok", <<PresetTeam>>)),
          Dir(Listing({<<"x.yaml", File(Content("ok", <<PresetTeam>>))>>}), FALSE)}
    [] name \in {"a", "b"} -> SubDirs
    [] name = "n.txt" -> {File(Content("ok", <<PresetTeam>>))}
    [] name = "x.yaml" ->
         PlainFiles
           \cup {Dir(Listing({<<"y.yml", File(Content("ok", <<>>))>>}), FALSE)}
    [] OTHER -> {}

\* the job-config directories with sub-directories
Trees ==
  UNION {{l \in [D -> UNION {NodesOf(n) : n \in D}] :
            \A n \in D : l[n] \in NodesOf(n)} :
           D \in SUBSET {"..data", "a", "b", "n.txt", "x.yaml"}}

\* the flat job-config directories, with every kind of file
FlatTrees == Maps({"x.yaml", "y.yml"}, JobFiles \cup {LstatErr})

JobConfigPath(name, node) == [kind |-> "path", name |-> name, node |-> node]

\* jobConfig "", a path os.Stat fails on, a single file, a directory
TreeInputs ==
  [prowConfig : {File(Content("ok", <<>>))},
   jobConfig : {JobConfigPath("jobs", Dir(l, FALSE)) : l \in Trees}]

ContentInputs ==
  [prowConfig : ProwConfigs,
   jobConfig : {[kind |-> "empty"], [kind |-> "missing"]}
                 \cup {JobConfigPath("job.yaml", f) : f \in JobFiles}
                 \cup {JobConfigPath("jobs", Dir(l, FALSE)) : l \in FlatTrees}]

RootInputs ==
  [prowConfig : {File(Content("ok", <<>>))},
   jobConfig : {JobConfigPath(n, Dir(l, r)) :
                  n \in RootNames, r \in BOOLEAN,
                  l \in {<<>>, Listing({<<"x.yaml", File(Content("ok", <<PresetTeam>>))>>})}}]

LoadInputs == TreeInputs \cup ContentInputs \cup RootInputs

ProwConfigPath == <<"config.yaml">>

InitLoad ==
  /\ input \in LoadInputs
  /\ c = [Presets |-> <<>>]
  /\ pc = "loadConfig"
  /\ ret = Pending
  /\ log = <<>>
  /\ ran = <<>>
  /\ uniqueBasenames = {}
  /\ todo = <<>>

\* flagutil.go:133-155: the main config file
StepProwConfig ==
  /\ pc = "loadConfig"
  /\ LET main == input.prowConfig
         y == yamlToConfig(ProwConfigPath, main.content)
     IN IF main.kind = "missing"
        THEN /\ ret' = Outcome3(NilConfig, StatError(PathString(ProwConfigPath)), FALSE)
             /\ pc' = "Load"
             /\ UNCHANGED <<c, ran>>
        ELSE IF main.kind = "dir"
        THEN /\ ret' = Outcome3(NilConfig, DirError(PathString(ProwConfigPath)), FALSE)
             /\ pc' = "Load"
             /\ UNCHANGED <<c, ran>>
        ELSE /\ ran' = Append(ran, Call("yamlToConfig", ProwConfigPath))
             /\ IF y.panic
                THEN /\ ret' = Outcome3(NilConfig, Nil, TRUE)
                     /\ pc' = "Load"
                     /\ c' = c
                ELSE IF y.err # Nil
                THEN /\ ret' = Outcome3(NilConfig, y.err, FALSE)
                     /\ pc' = "Load"
                     /\ c' = c
                ELSE /\ c' = y.cfg
                     /\ IF input.jobConfig.kind = "empty"
                        THEN ret' = Outcome3(y.cfg, Nil, FALSE) /\ pc' = "Load"
                        ELSE ret' = ret /\ pc' = "jobConfig"
  /\ UNCHANGED <<input, log, uniqueBasenames, todo>>

\* flagutil.go:157-176: os.Stat of jobConfig, then the single file, or the
\* start of the walk of the directory
StepJobConfig ==
  /\ pc = "jobConfig"
  /\ LET job == input.jobConfig
     IN IF job.kind = "missing"
        THEN /\ ret' = Outcome3(NilConfig, StatError("jobs"), FALSE)
             /\ pc' = "Load"
             /\ UNCHANGED <<c, ran, uniqueBasenames, todo>>
        ELSE IF job.node.kind # "dir"
        THEN LET y == yamlToConfig(<<job.name>>, job.node.content)
             IN /\ UNCHANGED <<uniqueBasenames, todo>>
                /\ pc' = "Load"
                /\ IF y.panic
                   THEN /\ ret' = Outcome3(NilConfig, Nil, TRUE)
                        /\ ran' = Append(ran, Call("yamlToConfig", <<job.name>>))
                        /\ c' = c
                   ELSE IF y.err # Nil
                   THEN /\ ret' = Outcome3(NilConfig, y.err, FALSE)
                        /\ ran' = Append(ran, Call("yamlToConfig", <<job.name>>))
                        /\ c' = c
                   ELSE \E scan \in ScanOrders(c.Presets \o y.cfg.Presets) :
                          LET m == mergeJobConfig(c, y.cfg, scan)
                          IN /\ c' = m.cfg
                             /\ ret' = IF m.err # Nil
                                       THEN Outcome3(NilConfig, m.err, FALSE)
                                       ELSE Outcome3(m.cfg, Nil, FALSE)
                             /\ ran' = ran \o <<Call("yamlToConfig", <<job.name>>),
                                                Call("mergeJobConfig", <<job.name>>)>>
        ELSE /\ uniqueBasenames' = {}
             /\ todo' = FlattenNode(<<job.name>>, job.node)
             /\ pc' = "walk"
             /\ UNCHANGED <<c, ret, ran>>
  /\ UNCHANGED <<input, log>>

\* flagutil.go:178-219: filepath.Walk reaches the next entry and calls the
\* function on it; the walk ends on an error, on a panic, or after the last
\* entry
StepWalk ==
  /\ pc = "walk"
  /\ LET e == Head(todo)
         sub == yamlToConfig(e.path, e.content).cfg
     IN \E scan \in ScanOrders(c.Presets \o sub.Presets) :
          LET r == walkFn(c, uniqueBasenames, e, scan)
              rest == IF e.kind = "dir" /\ (e.readdirErr \/ r.err = SkipDir)
                      THEN SkipChildren(e, Tail(todo))
                      ELSE Tail(todo)
          IN /\ c' = r.nc
             /\ uniqueBasenames' = r.ub
             /\ log' = log \o r.log
             /\ ran' = ran \o r.calls
             /\ todo' = rest
             /\ IF r.panic
                THEN ret' = Outcome3(NilConfig, Nil, TRUE) /\ pc' = "Load"
                ELSE IF r.err # Nil /\ r.err # SkipDir
                THEN ret' = Outcome3(NilConfig, r.err, FALSE) /\ pc' = "Load"
                ELSE IF rest = <<>>
                THEN ret' = Outcome3(r.nc, Nil, FALSE) /\ pc' = "Load"
                ELSE ret' = ret /\ pc' = "walk"
  /\ UNCHANGED input

\* flagutil.go:106-127: Load returns, through its deferred function
StepLoad ==
  /\ pc = "Load"
  /\ ret' = LoadResult(ret)
  /\ pc' = "done"
  /\ UNCHANGED <<c, input, log, ran, uniqueBasenames, todo>>

NextLoad ==
  \/ StepProwConfig
  \/ StepJobConfig
  \/ StepWalk
  \/ StepLoad

SpecLoad == InitLoad /\ [][NextLoad]_vars

\* the paths op was called on, in call order
CallsOf(op) ==
  LET made == SelectSeq(ran, LAMBDA call : call.op = op)
  IN [i \in DOMAIN made |-> made[i].path]

\* the fragment files parsed so far, in parse order
ParsedFragments ==
  SelectSeq(CallsOf("yamlToConfig"), LAMBDA path : path # ProwConfigPath)

JobConfigIsDir ==
  input.jobConfig.kind = "path" /\ input.jobConfig.node.kind = "dir"

\* every entry at or below jobConfig, in walk order
JobEntries ==
  IF input.jobConfig.kind = "path"
  THEN FlattenNode(<<input.jobConfig.name>>, input.jobConfig.node)
  ELSE <<>>

\* the entry or a directory above it has a name that starts with ".."
Hidden(path) == \E i \in DOMAIN path : HasDotDotPrefix(path[i])

BelowHidden(path) == \E i \in 1..(Len(path) - 1) : HasDotDotPrefix(path[i])

\* a directory above the entry cannot be listed, so the walk cannot see it
Unlisted(entries, path) ==
  \E i \in DOMAIN entries :
    /\ entries[i].readdirErr
    /\ Len(entries[i].path) < Len(path)
    /\ SubSeq(path, 1, Len(entries[i].path)) = entries[i].path

\* the eligible files, in walk order: regular files named *.yaml or *.yml
\* that the walk can see, outside every ".." entry
EligibleAmong(entries) ==
  SelectSeq(entries,
            LAMBDA e : /\ e.kind = "file"
                       /\ Ext(e.path) \in {".yaml", ".yml"}
                       /\ ~Hidden(e.path)
                       /\ ~Unlisted(entries, e.path))

EligibleFiles == EligibleAmong(JobEntries)

LastName(path) == path[Len(path)]

\* the positions of the eligible files whose basename an earlier eligible
\* file has
SecondOccurrences(files) ==
  {d \in DOMAIN files :
     \E j \in 1..(d - 1) : LastName(files[j].path) = LastName(files[d].path)}

Least(S) == CHOOSE d \in S : \A k \in S : d <= k

Visited(path) == \E i \in DOMAIN ran : ran[i] = Call("walkFn", path)

Parsed(path) == \E i \in DOMAIN ran : ran[i] = Call("yamlToConfig", path)

MergedFrom(path) == \E i \in DOMAIN ran : ran[i] = Call("mergeJobConfig", path)

\* C13: every Config that Load returns without error holds no (label, value)
\* pair in two of its presets, whether jobConfig is empty, a single file or
\* a directory.
C13_ReturnedPresetsUnique ==
  (Returned /\ ret.err = Nil) => SharedPairs(ret.c.Presets) = {}

\* C14: with jobConfig a directory, no two parsed files have the same
\* basename; once the walk reaches the first eligible file whose basename an
\* earlier eligible file has, Load returns the error naming that basename
\* and a nil Config, and neither that file nor a later one is parsed or
\* merged.
C14_DuplicatedBasenameAborts ==
  JobConfigIsDir =>
    LET parsed == ParsedFragments
        files == EligibleFiles
        seconds == SecondOccurrences(files)
        second == Least(seconds)
    IN /\ \A i, j \in DOMAIN parsed :
            i # j => LastName(parsed[i]) # LastName(parsed[j])
       /\ (Returned /\ seconds # {} /\ Visited(files[second].path))
            => /\ ret.c = NilConfig
               /\ ret.err = DuplicatedBasenameError(LastName(files[second].path))
               /\ \A k \in DOMAIN files :
                    k >= second => /\ ~Parsed(files[k].path)
                                   /\ ~MergedFrom(files[k].path)

C14_Witness ==
  /\ Returned
  /\ JobConfigIsDir
  /\ ret.err = DuplicatedBasenameError("x.yaml")
  /\ EligibleFiles = <<[path |-> <<"jobs", "a", "x.yaml">>, kind |-> "file",
                        readdirErr |-> FALSE, content |-> Content("ok", <<>>)],
                       [path |-> <<"jobs", "b", "x.yaml">>, kind |-> "file",
                        readdirErr |-> FALSE, content |-> Content("ok", <<>>)],
                       [path |-> <<"jobs", "b", "y.yml">>, kind |-> "file",
                        readdirErr |-> FALSE, content |-> Content("ok", <<>>)]>>
  /\ Parsed(<<"jobs", "a", "x.yaml">>)
  /\ Visited(<<"jobs", "b", "x.yaml">>)
  /\ ~Visited(<<"jobs", "b", "y.yml">>)

\* the presets of the files, one file after the other
RECURSIVE PresetsOfFiles(_)
PresetsOfFiles(files) ==
  IF files = <<>> THEN <<>>
  ELSE Head(files).content.presets \o PresetsOfFiles(Tail(files))

\* C15: during the walk an entry whose name starts with ".." is never
\* parsed or merged, nothing below such a directory is visited, the
\* basenames counted are those of the files parsed, and a load that
\* succeeds holds the presets of the main file and of every eligible file.
C15_HiddenEntriesSkipped ==
  JobConfigIsDir =>
    LET entries == JobEntries
        parsed == ParsedFragments
    IN /\ \A i \in DOMAIN entries :
            /\ Hidden(entries[i].path)
                 => ~Parsed(entries[i].path) /\ ~MergedFrom(entries[i].path)
            /\ BelowHidden(entries[i].path) => ~Visited(entries[i].path)
       /\ uniqueBasenames = {LastName(parsed[i]) : i \in DOMAIN parsed}
       /\ (Returned /\ ret.err = Nil)
            => ret.c.Presets = input.prowConfig.content.presets
                               \o PresetsOfFiles(EligibleAmong(entries))

C15_Witness ==
  /\ Returned
  /\ JobConfigIsDir
  /\ "..data" \in DOMAIN input.jobConfig.node.listing
  /\ input.jobConfig.node.listing["..data"]
       = Dir(Listing({<<"x.yaml", File(Content("ok", <<PresetTeam>>))>>}), FALSE)
  /\ DOMAIN input.jobConfig.node.listing = {"..data", "a"}
  /\ input.jobConfig.node.listing["a"]
       = Dir(Listing({<<"x.yaml", File(Content("ok", <<PresetTeam>>))>>}), FALSE)
  /\ Visited(<<"jobs", "..data">>)
  /\ ret.err = Nil
  /\ ret.c.Presets = <<PresetTeam>>

\* the parser went into a fault on one of the files it was called on
PanicRaised ==
  \/ Parsed(ProwConfigPath) /\ input.prowConfig.content.status = "panic"
  \/ LET entries == JobEntries
     IN \E i \in DOMAIN entries :
          entries[i].content.status = "panic" /\ Parsed(entries[i].path)

\* C16: Load returns a Config and no error, or no Config and an error, and
\* nothing else; after a panic inside loading it returns no Config and the
\* error made from the panic.
C16_ConfigXorError ==
  Returned =>
    /\ \/ ret.c # NilConfig /\ ret.err = Nil
       \/ ret.c = NilConfig /\ ret.err # Nil
    /\ PanicRaised => ret.c = NilConfig /\ ret.err = PanicError(PanicValue)

C16_Witness ==
  /\ Returned
  /\ JobConfigIsDir
  /\ MergedFrom(<<"jobs", "x.yaml">>)
  /\ c.Presets # <<>>
  /\ Parsed(<<"jobs", "y.yml">>)
  /\ PanicRaised
  /\ ret.c = NilConfig
  /\ ret.err = PanicError(PanicValue)

\* the walk of the job-config directory was started and met no panic
WalkedWithoutPanic ==
  /\ Returned
  /\ JobConfigIsDir
  /\ input.prowConfig.kind = "file"
  /\ input.prowConfig.content.status = "ok"
  /\ ~PanicRaised

\* the entries filepath.Walk reports an error for
HasWalkError(e) == e.kind = "lstatErr" \/ e.readdirErr

\* two labels of the presets give the same "label:value" string
RenderedTwice(presets) ==
  \E i, j \in DOMAIN presets :
    \E l \in DOMAIN presets[i].Labels, k \in DOMAIN presets[j].Labels :
      /\ <<i, l>> # <<j, k>>
      /\ Pair(l, presets[i].Labels[l]) = Pair(k, presets[j].Labels[k])

C21_WitnessUnreadable ==
  /\ WalkedWithoutPanic
  /\ DOMAIN input.jobConfig.node.listing = {"x.yaml", "y.yml"}
  /\ input.jobConfig.node.listing["x.yaml"] = File(Content("unreadable", <<>>))
  /\ input.jobConfig.node.listing["y.yml"] = File(Content("ok", <<PresetTeam>>))
  /\ ret.err = ReadError("jobs/x.yaml")
  /\ ret.c = NilConfig
  /\ ~Visited(<<"jobs", "y.yml">>)

\* every default the defaulting pass is to leave in cfg, given the
\* Configuration given it was run on
DefaultsInPlace(given, cfg) ==
  /\ DOMAIN cfg.ConfigUpdater.Maps # {}
  /\ \A k \in DOMAIN cfg.ConfigUpdater.Maps :
       cfg.ConfigUpdater.Maps[k].Namespaces
         = <<cfg.ConfigUpdater.Maps[k].Namespace>>
           \o cfg.ConfigUpdater.Maps[k].AdditionalNamespaces
  /\ \A repo \in DOMAIN cfg.ExternalPlugins :
       \A i \in DOMAIN cfg.ExternalPlugins[repo] :
         cfg.ExternalPlugins[repo][i].Endpoint # ""
  /\ cfg.Blunderbuss.FileWeightCount = NilInt
       => cfg.Blunderbuss.ReviewerCount # NilInt
  /\ \A i \in DOMAIN cfg.Triggers :
       cfg.Triggers[i].TrustedOrg # "" => cfg.Triggers[i].JoinOrgURL # ""
  /\ cfg.SigMention.Regexp # ""
  /\ cfg.CherryPickUnapproved.BranchRegexp # ""
  /\ cfg.CherryPickUnapproved.Comment # ""
  /\ \A i \in DOMAIN cfg.RequireMatchingLabel :
       cfg.RequireMatchingLabel[i].GracePeriod # ""
  /\ \A k \in DOMAIN given.RepoMilestone :
       given.RepoMilestone[k].MaintainersFriendlyName = ""
         => cfg.RepoMilestone[k].MaintainersFriendlyName = "SIG Chairs/TLs"

\* C22: the defaulting pass applied again to a defaulted Configuration
\* changes nothing, a second Validate of a validated Configuration leaves it
\* as it is and fails at the same stage or not at all, and every default is
\* in place once Validate has returned, with or without an error.
C22_DefaultingIdempotentAndFull ==
  /\ Defaulted => setDefaults(c) = c
  /\ Returned =>
       /\ compileRegexpsAndDurations(setDefaults(c)).cfg = c
       /\ IF compileRegexpsAndDurations(setDefaults(c)).err # Nil
          THEN ret = compileRegexpsAndDurations(setDefaults(c)).err
          ELSE \E i \in DOMAIN ran : ran[i] = "validatePlugins"
       /\ DefaultsInPlace(input, c)

\* the value now is the value given, unless the value given was empty
KeptUnlessEmpty(given, now, empty) == given = empty \/ now = given

\* C23: at every stage of Validate, whether it goes on to succeed or fail,
\* a value the author supplied is as given: a non-empty Endpoint,
\* JoinOrgURL, SigMention.Regexp, BranchRegexp, Comment and GracePeriod, a
\* set ReviewerCount (and an unset one when FileWeightCount is set), the
\* Plugins map and the Name of every external plugin; whatever else differs
\* from the input was empty in it or is a derived field (a compiled
\* matcher, a duration, Namespaces).
C23_AuthorValuesKept ==
  /\ c.Plugins = input.Plugins
  /\ DOMAIN c.ExternalPlugins = DOMAIN input.ExternalPlugins
  /\ \A repo \in DOMAIN input.ExternalPlugins :
       /\ DOMAIN c.ExternalPlugins[repo] = DOMAIN input.ExternalPlugins[repo]
       /\ \A i \in DOMAIN input.ExternalPlugins[repo] :
            /\ c.ExternalPlugins[repo][i].Name = input.ExternalPlugins[repo][i].Name
            /\ KeptUnlessEmpty(input.ExternalPlugins[repo][i].Endpoint,
                               c.ExternalPlugins[repo][i].Endpoint, "")
  /\ DOMAIN c.Triggers = DOMAIN input.Triggers
  /\ \A i \in DOMAIN input.Triggers :
       /\ c.Triggers[i].TrustedOrg = input.Triggers[i].TrustedOrg
       /\ KeptUnlessEmpty(input.Triggers[i].JoinOrgURL, c.Triggers[i].JoinOrgURL, "")
  /\ KeptUnlessEmpty(input.SigMention.Regexp, c.SigMention.Regexp, "")
  /\ KeptUnlessEmpty(input.CherryPickUnapproved.BranchRegexp,
                     c.CherryPickUnapproved.BranchRegexp, "")
  /\ KeptUnlessEmpty(input.CherryPickUnapproved.Comment,
                     c.CherryPickUnapproved.Comment, "")
  /\ c.Heart.CommentRegexp = input.Heart.CommentRegexp
  /\ DOMAIN c.RequireMatchingLabel = DOMAIN input.RequireMatchingLabel
  /\ \A i \in DOMAIN input.RequireMatchingLabel :
       /\ c.RequireMatchingLabel[i].Regexp = input.RequireMatchingLabel[i].Regexp
       /\ KeptUnlessEmpty(input.RequireMatchingLabel[i].GracePeriod,
                          c.RequireMatchingLabel[i].GracePeriod, "")
  /\ c.Blunderbuss.FileWeightCount = input.Blunderbuss.FileWeightCount
  /\ KeptUnlessEmpty(input.Blunderbuss.ReviewerCount,
                     c.Blunderbuss.ReviewerCount, NilInt)
  /\ input.Blunderbuss.FileWeightCount # NilInt
       => c.Blunderbuss.ReviewerCount = input.Blunderbuss.ReviewerCount
  /\ DOMAIN c.RepoMilestone = DOMAIN input.RepoMilestone
  /\ \A k \in DOMAIN input.RepoMilestone :
       KeptUnlessEmpty(input.RepoMilestone[k].MaintainersFriendlyName,
                       c.RepoMilestone[k].MaintainersFriendlyName, "")
  /\ c.ConfigUpdater.ConfigFile = input.ConfigUpdater.ConfigFile
  /\ c.ConfigUpdater.PluginFile = input.ConfigUpdater.PluginFile
  /\ DOMAIN input.ConfigUpdater.Maps # {}
       => /\ DOMAIN c.ConfigUpdater.Maps = DOMAIN input.ConfigUpdater.Maps
          /\ \A k \in DOMAIN input.ConfigUpdater.Maps :
               [c.ConfigUpdater.Maps[k] EXCEPT !.Namespaces = <<>>]
                 = [input.ConfigUpdater.Maps[k] EXCEPT !.Namespaces = <<>>]

C23_Witness ==
  /\ Returned
  /\ <<"org">> \in DOMAIN input.ExternalPlugins
  /\ input.ExternalPlugins[<<"org">>] = <<[Name |-> "ext", Endpoint |-> "http://e"]>>
  /\ c.ExternalPlugins[<<"org">>] = <<[Name |-> "ext", Endpoint |-> "http://e"]>>
  /\ input.Triggers = <<[TrustedOrg |-> "kubernetes", JoinOrgURL |-> "https://join"]>>
  /\ c.Triggers = input.Triggers
  /\ input.Blunderbuss = [ReviewerCount |-> NilInt, FileWeightCount |-> <<1>>]
  /\ c.Blunderbuss.ReviewerCount = NilInt

C23_WitnessFailed ==
  /\ Returned
  /\ ret # Nil
  /\ input.SigMention.Regexp = "sig-(.*)"
  /\ input.CherryPickUnapproved.BranchRegexp = "("
  /\ input.CherryPickUnapproved.Comment = "hold"
  /\ Len(input.RequireMatchingLabel) = 1
  /\ input.RequireMatchingLabel[1].GracePeriod = "soon"
  /\ c.SigMention.Re # NilRe
  /\ c.RequireMatchingLabel[1].GracePeriod = "soon"

====
